---- MODULE Spec2Model ----
(***************************************************************************)
(* Model of src/app.js: the POST /api/firearms/search handler, the         *)
(* validateFirearmSearch middleware, performScraping, the generic-pool     *)
(* browserPool (min 2, max 10) and the node-cache result cache (stdTTL     *)
(* 3600 s).  Strings are sequences of one-character strings, so that the   *)
(* regular expressions, the sanitizers and JSON.stringify are computed.    *)
(***************************************************************************)
EXTENDS Integers, Sequences, FiniteSets, TLC

VARIABLES
    now,               \* Date.now(), in milliseconds since the process started
    cache,             \* NodeCache data: key -> [v |-> value, t |-> livetime]
    allObjects,        \* pool._allObjects: instance id -> "IDLE" | "ALLOCATED"
    availableObjects,  \* pool._availableObjects, a FIFO queue of instance ids
    waitingClients,    \* pool._waitingClientsQueue, a FIFO queue of requests
    creating,          \* pool._factoryCreateOperations.size
    crashed,           \* instances whose browser process has died
    req,               \* per request slot: position and locals of the handler
    setLog,            \* history: key -> the most recent cache.set (time, value, body)
    env,               \* the environment: input universes and remaining budgets
    probe,             \* cache-key scenario: two request bodies and what line 403 makes of them
    pages,             \* instance id -> number of pages opened on it and not closed
    filter             \* the last intercepted request and what the filter of lines 126-132 did

vars == <<now, cache, allObjects, availableObjects, waitingClients, creating,
          crashed, req, setLog, env, probe, pages, filter>>

(***************************************************************************)
(* Bounds of the model.                                                    *)
(***************************************************************************)
\* inputs of the environment in the cache scenario: requests received, clock
\* advances, and faults (a failing step, a crash, a failing launch)
MaxInputs == 4
\* clock advances in the load scenario
LoadTicks == 1
\* open pages of one instance are counted up to this number
MaxPages == 2

(***************************************************************************)
(* Program constants.                                                      *)
(***************************************************************************)
PoolMin == 2
PoolMax == 10
StdTTL == 3600

Reqs == {"r1", "r2"}
NULL == <<"null">>

\* a budget that is never used up
Unlimited == 0 - 1
Spend(n) == IF n = Unlimited THEN n ELSE n - 1

Min(a, b) == IF a < b THEN a ELSE b
Max(a, b) == IF a > b THEN a ELSE b

RECURSIVE Concat(_)
Concat(ss) == IF ss = <<>> THEN <<>> ELSE Head(ss) \o Concat(Tail(ss))

(***************************************************************************)
(* Strings.                                                                *)
(***************************************************************************)
Digit == {"0", "1", "2", "3", "4", "5", "6", "7", "8", "9"}
Alpha == {"A", "B", "C", "D", "E", "F", "G", "H", "I", "J", "K", "L", "M",
          "N", "O", "P", "Q", "R", "S", "T", "U", "V", "W", "X", "Y", "Z",
          "a", "b", "c", "d", "e", "f", "g", "h", "i", "j", "k", "l", "m",
          "n", "o", "p", "q", "r", "s", "t", "u", "v", "w", "x", "y", "z"}
Alnum == Alpha \cup Digit
Whitespace == {" "}

AllIn(s, C) == \A i \in 1..Len(s) : s[i] \in C

\* /^[A-Za-z0-9]{6,}$/  (fref, fsref)
IsReference(s) == Len(s) >= 6 /\ AllIn(s, Alnum)
\* /^\d{13}$/  (frid, fid)
IsIdNumber(s) == Len(s) = 13 /\ AllIn(s, Digit)
\* /^[A-Za-z0-9]{4,}$/  (fserial, fiserial)
IsSerial(s) == Len(s) >= 4 /\ AllIn(s, Alnum)

\* JavaScript truthiness of a string
Truthy(s) == s # <<>>

fref == <<"f", "r", "e", "f">>
frid == <<"f", "r", "i", "d">>
fserial == <<"f", "s", "e", "r", "i", "a", "l">>
fsref == <<"f", "s", "r", "e", "f">>
fid == <<"f", "i", "d">>
fiserial == <<"f", "i", "s", "e", "r", "i", "a", "l">>
note == <<"n", "o", "t", "e">>

\* A request body is the ordered list of its properties (insertion order).
HasField(b, f) == \E i \in 1..Len(b) : b[i].name = f
\* b.f, with undefined read as the empty (falsy) string
Field(b, f) ==
    IF HasField(b, f)
    THEN b[CHOOSE i \in 1..Len(b) : b[i].name = f].value
    ELSE <<>>

Prop(n, v) == [name |-> n, value |-> v]

(***************************************************************************)
(* validateFirearmSearch: the custom validator runs on the raw body, then  *)
(* body('*').trim().escape() rewrites every top-level property in place.   *)
(***************************************************************************)
\* pairs.filter(Boolean).length
PairCount(b) ==
    (IF Truthy(Field(b, fref)) /\ Truthy(Field(b, frid)) THEN 1 ELSE 0)
    + (IF Truthy(Field(b, fserial)) /\ Truthy(Field(b, fsref)) THEN 1 ELSE 0)
    + (IF Truthy(Field(b, fid)) /\ Truthy(Field(b, fiserial)) THEN 1 ELSE 0)

\* TRUE iff the custom validator returns true (no error is thrown)
ValidateFirearmSearch(b) ==
    /\ PairCount(b) = 1
    /\ Truthy(Field(b, fref)) => IsReference(Field(b, fref))
    /\ Truthy(Field(b, frid)) => IsIdNumber(Field(b, frid))
    /\ Truthy(Field(b, fserial)) => IsSerial(Field(b, fserial))
    /\ Truthy(Field(b, fsref)) => IsReference(Field(b, fsref))
    /\ Truthy(Field(b, fid)) => IsIdNumber(Field(b, fid))
    /\ Truthy(Field(b, fiserial)) => IsSerial(Field(b, fiserial))

RECURSIVE TrimLeft(_)
TrimLeft(s) ==
    IF s # <<>> /\ Head(s) \in Whitespace THEN TrimLeft(Tail(s)) ELSE s

RECURSIVE TrimRight(_)
TrimRight(s) ==
    IF s # <<>> /\ s[Len(s)] \in Whitespace
    THEN TrimRight(SubSeq(s, 1, Len(s) - 1))
    ELSE s

Trim(s) == TrimRight(TrimLeft(s))

\* the characters that cannot be written inside a string literal
DQuote == "dquote"
BSlash == "bslash"
SQuote == "squote"
BTick == "btick"

\* validator.js escape(): HTML entities for & " ' < > / \ and the backtick
EscapeChar(c) ==
    CASE c = "&" -> <<"&", "a", "m", "p", ";">>
      [] c = DQuote -> <<"&", "q", "u", "o", "t", ";">>
      [] c = SQuote -> <<"&", "#", "x", "2", "7", ";">>
      [] c = "<" -> <<"&", "l", "t", ";">>
      [] c = ">" -> <<"&", "g", "t", ";">>
      [] c = "/" -> <<"&", "#", "x", "2", "F", ";">>
      [] c = BSlash -> <<"&", "#", "x", "5", "C", ";">>
      [] c = BTick -> <<"&", "#", "9", "6", ";">>
      [] OTHER -> <<c>>

Escape(s) == Concat([i \in 1..Len(s) |-> EscapeChar(s[i])])

\* body(*).trim().escape(): req.body after the middleware
Sanitize(b) == [i \in 1..Len(b) |-> Prop(b[i].name, Escape(Trim(b[i].value)))]

(***************************************************************************)
(* JSON.stringify(req.body): properties in insertion order.                *)
(***************************************************************************)
JSONChar(c) ==
    CASE c = DQuote -> <<BSlash, DQuote>>
      [] c = BSlash -> <<BSlash, BSlash>>
      [] OTHER -> <<c>>

JSONQuote(s) == <<DQuote>> \o Concat([i \in 1..Len(s) |-> JSONChar(s[i])]) \o <<DQuote>>

JSONProp(p) == JSONQuote(p.name) \o <<":">> \o JSONQuote(p.value)

RECURSIVE JSONProps(_)
JSONProps(b) ==
    IF b = <<>> THEN <<>>
    ELSE IF Len(b) = 1 THEN JSONProp(b[1])
    ELSE JSONProp(b[1]) \o <<",">> \o JSONProps(Tail(b))

\* a serialisation that forgets the property names
JSONValuesOnly(b) == <<"[">> \o Concat([i \in 1..Len(b) |-> JSONQuote(b[i].value) \o <<",">>]) \o <<"]">>

JSONstringify(b) == <<"{">> \o JSONProps(b) \o <<"}">>

(***************************************************************************)
(* The query a body denotes: the variant whose pair performScraping types, *)
(* with the two values (lines 137-146).                                    *)
(***************************************************************************)
\* a fill that picks its branch by the first field of each pair alone
FillPlanByFirstField(data) ==
    IF Truthy(Field(data, fserial))
    THEN <<Prop(fserial, Field(data, fserial)), Prop(fsref, Field(data, fsref))>>
    ELSE IF Truthy(Field(data, fref))
    THEN <<Prop(fref, Field(data, fref)), Prop(frid, Field(data, frid))>>
    ELSE IF Truthy(Field(data, fid))
    THEN <<Prop(fid, Field(data, fid)), Prop(fiserial, Field(data, fiserial))>>
    ELSE <<>>

\* the page.type calls of lines 137-146, as selector and text
FillPlan(data) ==
    IF Truthy(Field(data, fref)) /\ Truthy(Field(data, frid))
    THEN <<Prop(fref, Field(data, fref)), Prop(frid, Field(data, frid))>>
    ELSE IF Truthy(Field(data, fserial)) /\ Truthy(Field(data, fsref))
    THEN <<Prop(fserial, Field(data, fserial)), Prop(fsref, Field(data, fsref))>>
    ELSE IF Truthy(Field(data, fid)) /\ Truthy(Field(data, fiserial))
    THEN <<Prop(fid, Field(data, fid)), Prop(fiserial, Field(data, fiserial))>>
    ELSE <<>>

\* structural identity of a query: its variant and its two field values
QueryOf(b) == {b[i] : i \in {j \in 1..Len(b) :
                  \E k \in 1..Len(FillPlan(b)) : FillPlan(b)[k].name = b[j].name}}

(***************************************************************************)
(* node-cache: new NodeCache({ stdTTL: 3600 }).                            *)
(***************************************************************************)
\* _wrap: livetime = Date.now() + stdTTL * 1000
Livetime(t) == t + StdTTL * 1000

\* _check: an entry is expired when its livetime is before Date.now()
Expired(c, k, t) == k \in DOMAIN c /\ c[k].t # 0 /\ c[k].t < t

\* get(key): the value, or NULL (undefined) on a miss
CacheGet(c, k, t) == IF k \in DOMAIN c /\ ~Expired(c, k, t) THEN c[k].v ELSE NULL

\* a get that restarts the livetime of the entry it returns
CacheAfterGetTouches(c, k, t) ==
    IF k \in DOMAIN c /\ c[k].t # 0 /\ c[k].t < t
    THEN [x \in DOMAIN c \ {k} |-> c[x]]
    ELSE [x \in DOMAIN c |->
             IF x = k THEN [v |-> c[x].v, t |-> t + StdTTL * 1000] ELSE c[x]]

\* the data after get(key): _check deletes an expired entry (deleteOnExpire)
CacheAfterGet(c, k, t) ==
    IF Expired(c, k, t) THEN [x \in DOMAIN c \ {k} |-> c[x]] ELSE c

\* a set that leaves an entry that is already stored as it is
CacheSetIfAbsent(c, k, v, t) ==
    IF k \in DOMAIN c
    THEN c
    ELSE [x \in DOMAIN c \cup {k} |->
             IF x = k THEN [v |-> v, t |-> t + StdTTL * 1000] ELSE c[x]]

\* a set that keeps the livetime of the entry it overwrites
CacheSetKeepsLivetime(c, k, v, t) ==
    [x \in DOMAIN c \cup {k} |->
        IF x = k
        THEN [v |-> v, t |-> IF k \in DOMAIN c THEN c[k].t ELSE t + StdTTL * 1000]
        ELSE c[x]]

\* set(key, value): store or overwrite, with a fresh livetime
CacheSet(c, k, v, t) ==
    [x \in DOMAIN c \cup {k} |-> IF x = k THEN [v |-> v, t |-> Livetime(t)] ELSE c[x]]

\* _checkData: the periodic sweep deletes every expired entry
CacheSweep(c, t) == [x \in {k \in DOMAIN c : ~Expired(c, k, t)} |-> c[x]]

(***************************************************************************)
(* generic-pool: createPool(factory, { min: 2, max: 10 }).  No             *)
(* acquireTimeoutMillis, no maxWaitingClients, no testOnBorrow, fifo.      *)
(***************************************************************************)
Pool == [all |-> allObjects, avail |-> availableObjects,
         waiting |-> waitingClients, creating |-> creating]

\* a capacity that forgets the instances the pool already has
SpareCapacityIgnoresSize(P) == PoolMax

\* pool.spareResourceCapacity
SpareResourceCapacity(P) == PoolMax - (Len(P.all) + P.creating)

\* a _dispense that resolves the clients but leaves the instances queued
DispenseKeepsAvailable(P) ==
    LET nW == Len(P.waiting)
        n == Min(Len(P.avail), nW)
    IN  IF nW < 1 THEN [pool |-> P, grants |-> <<>>]
        ELSE [pool |-> [P EXCEPT !.waiting = SubSeq(P.waiting, n + 1, nW)],
              grants |-> [i \in 1..n |-> <<P.waiting[i], P.avail[i]>>]]

\* _dispense: start the creations the waiting clients need, then hand the
\* available instances to the waiting clients, both in FIFO order.
\* grants: the <<client, instance>> pairs resolved by this call.
Dispense(P) ==
    LET nW == Len(P.waiting)
        shortfall == nW - (Len(P.avail) + P.creating)
        toCreate == Max(0, Min(SpareResourceCapacity(P), shortfall))
        n == Min(Len(P.avail), nW)
        given == {P.avail[i] : i \in 1..n}
    IN  IF nW < 1 THEN [pool |-> P, grants |-> <<>>]
        ELSE [pool |-> [all |-> [i \in 1..Len(P.all) |->
                                    IF i \in given THEN "ALLOCATED" ELSE P.all[i]],
                        avail |-> SubSeq(P.avail, n + 1, Len(P.avail)),
                        waiting |-> SubSeq(P.waiting, n + 1, nW),
                        creating |-> P.creating + toCreate],
              grants |-> [i \in 1..n |-> <<P.waiting[i], P.avail[i]>>]]

\* acquire(): enqueue the resource request, then _dispense
Acquire(P, r) == Dispense([P EXCEPT !.waiting = Append(@, r)])

\* release(resource): the instance goes back to the available queue, then _dispense
Release(P, id) ==
    Dispense([P EXCEPT !.all = [@ EXCEPT ![id] = "IDLE"], !.avail = Append(@, id)])

\* factory.create resolved: the new instance joins the pool, then _dispense
Created(P) ==
    Dispense([P EXCEPT !.all = Append(@, "IDLE"),
                       !.avail = Append(@, Len(P.all) + 1),
                       !.creating = @ - 1])

\* factory.create rejected: factoryCreateError is emitted, then _dispense
CreateRejected(P) == Dispense([P EXCEPT !.creating = @ - 1])

SetPool(P) ==
    /\ allObjects' = P.all
    /\ availableObjects' = P.avail
    /\ waitingClients' = P.waiting
    /\ creating' = P.creating

(***************************************************************************)
(* Inputs.                                                                 *)
(***************************************************************************)
REF == <<"R", "E", "F", "1", "2", "3", "4", "5", "6">>
IDN == <<"8", "0", "0", "1", "0", "1", "5", "0", "0", "9", "0", "8", "7">>

BodyRefId == <<Prop(fref, REF), Prop(frid, IDN)>>
BodySerialId == <<Prop(fiserial, REF), Prop(fid, IDN)>>
BodyLone == <<Prop(fref, REF)>>

CacheEnv == [bodies |-> {BodyRefId, BodySerialId, BodyLone},
             texts |-> {<<" ">>, <<"A", " ">>},
             inputs |-> MaxInputs, ticks |-> Unlimited, crashAt |-> {"goto"},
             steps |-> {1, StdTTL * 1000, StdTTL * 1000 + 1}, pages |-> 0,
             resources |-> {}]

LoadEnv == [bodies |-> {BodyRefId, BodyLone}, texts |-> {<<"A">>},
            inputs |-> Unlimited, ticks |-> LoadTicks, crashAt |-> {},
            steps |-> {StdTTL * 1000 + 1}, pages |-> 0, resources |-> {}]

\* the browser scenario: the pages of each instance are counted and the
\* target site makes the page request resources of these types
BrowserEnv == [bodies |-> {BodyRefId, BodySerialId}, texts |-> {<<"A">>},
               inputs |-> MaxInputs, ticks |-> Unlimited, crashAt |-> {"goto"},
               steps |-> {StdTTL * 1000 + 1}, pages |-> MaxPages,
               resources |-> {"image", "stylesheet", "font", "document", "script"}]

\* the bodies of all scenarios, parsed once: what the middleware and line 403
\* make of each
Bodies == CacheEnv.bodies \cup LoadEnv.bodies \cup BrowserEnv.bodies

Parsed == [b \in Bodies |-> [valid |-> ValidateFirearmSearch(b),
                             data |-> Sanitize(b),
                             plan |-> FillPlan(Sanitize(b)),
                             cacheKey |-> JSONstringify(Sanitize(b))]]

\* the cache key of a request in flight: JSON.stringify of its req.body
KeyOf(data) == Parsed[CHOOSE b \in Bodies : Parsed[b].data = data].cacheKey

PlanOf(data) == Parsed[CHOOSE b \in Bodies : Parsed[b].data = data].plan

(***************************************************************************)
(* The requests.  pc is the await the handler is suspended at.             *)
(***************************************************************************)
Steps == <<"newPage", "setDefaultNavigationTimeout", "setDefaultTimeout",
           "setRequestInterception", "goto", "type1", "type2", "click",
           "waitForSelector", "content">>

StepNames == {Steps[i] : i \in 1..Len(Steps)}

StepIndex(name) == CHOOSE i \in 1..Len(Steps) : Steps[i] = name

\* the await that follows a successful step; the if / else-if chain of lines
\* 137-146 types into two fields, or into none when no pair is populated
NextStep(name, data) ==
    IF name = "goto" /\ PlanOf(data) = <<>> THEN "click"
    ELSE Steps[StepIndex(name) + 1]

FetchError == "Failed to fetch data"

Blank == [pc |-> "idle", body |-> <<>>, cachedResult |-> NULL,
          browser |-> 0, releases |-> 0,
          result |-> NULL, error |-> "", status |-> 0, sent |-> NULL]

\* acquire() resolved: the continuation calls browser.newPage()
ApplyGrants(rq, grants) ==
    [r \in Reqs |->
        IF \E i \in 1..Len(grants) : grants[i][1] = r
        THEN [rq[r] EXCEPT !.pc = "newPage",
                 !.browser = grants[CHOOSE i \in 1..Len(grants) : grants[i][1] = r][2]]
        ELSE rq[r]]

\* if (cachedResult): undefined and the empty string are falsy
IsCacheHit(v) == v # NULL /\ Truthy(v)

\* POST /api/firearms/search up to the first await of performScraping:
\* validation, sanitizing, cache lookup, browserPool.acquire()
Search(r, b) ==
    /\ req[r].pc \in {"idle", "done"}
    /\ UNCHANGED <<probe, pages, filter>>
    /\ b \in env.bodies
    /\ env.inputs # 0
    /\ env' = [env EXCEPT !.inputs = Spend(@)]
    /\ UNCHANGED <<now, crashed, setLog>>
    /\ IF ~Parsed[b].valid
       THEN /\ req' = [req EXCEPT ![r] = [Blank EXCEPT !.pc = "done", !.status = 400]]
            /\ UNCHANGED <<cache, allObjects, availableObjects, waitingClients, creating>>
       ELSE LET data == Parsed[b].data
                cacheKey == Parsed[b].cacheKey
                cachedResult == CacheGet(cache, cacheKey, now)
                started == [Blank EXCEPT !.body = data, !.cachedResult = cachedResult]
            IN  /\ cache' = CacheAfterGet(cache, cacheKey, now)
                /\ IF IsCacheHit(cachedResult)
                   THEN /\ req' = [req EXCEPT ![r] = [Blank EXCEPT !.pc = "done",
                                      !.cachedResult = cachedResult,
                                      !.status = 200, !.sent = cachedResult]]
                        /\ UNCHANGED <<allObjects, availableObjects, waitingClients,
                                       creating>>
                   ELSE LET d == Acquire(Pool, r)
                        IN  /\ SetPool(d.pool)
                            /\ req' = ApplyGrants(
                                   [req EXCEPT ![r] = [started EXCEPT !.pc = "acquire"]],
                                   d.grants)

\* puppeteer.launch resolved
CreateSucceeds ==
    /\ creating > 0
    /\ UNCHANGED <<probe, pages, filter>>
    /\ LET d == Created(Pool)
       IN  /\ SetPool(d.pool)
           /\ req' = ApplyGrants(req, d.grants)
    /\ UNCHANGED <<now, cache, crashed, setLog, env>>

\* puppeteer.launch rejected
CreateFails ==
    /\ creating > 0
    /\ UNCHANGED <<probe, pages, filter>>
    /\ env.inputs # 0
    /\ LET d == CreateRejected(Pool)
       IN  /\ SetPool(d.pool)
           /\ req' = ApplyGrants(req, d.grants)
    /\ env' = [env EXCEPT !.inputs = Spend(@)]
    /\ UNCHANGED <<now, cache, crashed, setLog>>

\* the finally block: browserPool.release(browser)
Finally(r, settled) ==
    LET d == Release(Pool, req[r].browser)
    IN  /\ SetPool(d.pool)
        /\ req' = ApplyGrants(
               [req EXCEPT ![r] = [settled EXCEPT !.releases = @ + 1]], d.grants)

\* the awaited browser call resolves; after page.content() the result is
\* extracted and trimmed, and the finally block runs
StepSucceeds(r) ==
    /\ req[r].pc \in StepNames
    /\ UNCHANGED <<probe, filter>>
    /\ pages' = IF req[r].pc = "newPage"
                THEN [pages EXCEPT ![req[r].browser] = Min(@ + 1, env.pages)]
                ELSE pages
    /\ req[r].browser \notin crashed
    /\ UNCHANGED <<now, cache, crashed, setLog, env>>
    /\ IF req[r].pc = "content"
       THEN \E text \in env.texts :
                Finally(r, [req[r] EXCEPT !.pc = "returned", !.result = Trim(text)])
       ELSE /\ req' = [req EXCEPT ![r].pc = NextStep(req[r].pc, req[r].body)]
            /\ UNCHANGED <<allObjects, availableObjects, waitingClients, creating>>

\* the awaited browser call rejects (a timeout, a missing selector, a dead
\* browser); crash: the browser process dies with it.  browser.newPage() is
\* awaited before the try block, every later call inside it.
StepFails(r, crash) ==
    /\ req[r].pc \in StepNames
    /\ UNCHANGED <<probe, pages, filter>>
    /\ IF req[r].browser \in crashed
       THEN ~crash /\ UNCHANGED env
       ELSE /\ env.inputs # 0
            /\ crash => req[r].pc \in env.crashAt
            /\ env' = [env EXCEPT !.inputs = Spend(@)]
    /\ crashed' = IF crash THEN crashed \cup {req[r].browser} ELSE crashed
    /\ UNCHANGED <<now, cache, setLog>>
    /\ IF req[r].pc = "newPage"
       THEN /\ req' = [req EXCEPT ![r] = [@ EXCEPT !.pc = "returned",
                                             !.error = "newPage rejected"]]
            /\ UNCHANGED <<allObjects, availableObjects, waitingClients, creating>>
       ELSE Finally(r, [req[r] EXCEPT !.pc = "returned", !.error = FetchError])

\* performScraping settled: cache.set and res.json, or the catch block's 500
HandlerResumes(r) ==
    /\ req[r].pc = "returned"
    /\ UNCHANGED <<probe, pages, filter>>
    /\ UNCHANGED <<now, allObjects, availableObjects, waitingClients, creating,
                   crashed, env>>
    /\ IF req[r].error = ""
       THEN LET cacheKey == KeyOf(req[r].body)
            IN  /\ cache' = CacheSet(cache, cacheKey, req[r].result, now)
                /\ setLog' = [k \in DOMAIN setLog \cup {cacheKey} |->
                                 IF k = cacheKey
                                 THEN [at |-> now, v |-> req[r].result,
                                       body |-> req[r].body]
                                 ELSE setLog[k]]
                /\ req' = [req EXCEPT ![r] = [Blank EXCEPT !.pc = "done", !.status = 200,
                                                 !.sent = req[r].result]]
       ELSE /\ req' = [req EXCEPT ![r] = [Blank EXCEPT !.pc = "done", !.status = 500]]
            /\ UNCHANGED <<cache, setLog>>

\* time passes
Tick(d) ==
    /\ env.inputs # 0
    /\ UNCHANGED <<probe, pages, filter>>
    /\ env.ticks # 0
    /\ d \in env.steps
    /\ now' = now + d
    /\ env' = [env EXCEPT !.inputs = Spend(@), !.ticks = Spend(@)]
    /\ UNCHANGED <<cache, allObjects, availableObjects, waitingClients, creating,
                   crashed, req, setLog>>

\* node-cache's periodic _checkData
Sweep ==
    /\ \E k \in DOMAIN cache : Expired(cache, k, now)
    /\ UNCHANGED <<probe, pages, filter>>
    /\ cache' = CacheSweep(cache, now)
    /\ UNCHANGED <<now, allObjects, availableObjects, waitingClients, creating,
                   crashed, req, setLog, env>>

\* the resource types the filter suppresses (line 127)
Suppressed == {"image", "stylesheet", "font"}

NoRequest == [type |-> "none", action |-> "none", rejected |-> FALSE,
              unhandled |-> FALSE]

\* page.on('request', ...) of lines 126-132 for one intercepted request of
\* the page of r: request.abort() for a suppressed type, otherwise
\* request.continue().catch(() => {}); rejects: the call made rejects.  A
\* rejection of abort() has no handler.
OnRequest(r, type, rejects) ==
    /\ req[r].pc \in {"goto", "type1", "type2", "click", "waitForSelector", "content"}
    /\ req[r].browser \notin crashed
    /\ type \in env.resources
    /\ env.inputs # 0
    /\ env' = [env EXCEPT !.inputs = Spend(@)]
    /\ LET action == IF type \in Suppressed THEN "abort" ELSE "continue"
       IN  filter' = [type |-> type, action |-> action, rejected |-> rejects,
                      unhandled |-> filter.unhandled \/ (rejects /\ action = "abort")]
    /\ UNCHANGED <<now, cache, allObjects, availableObjects, waitingClients, creating,
                   crashed, req, setLog, probe, pages>>

\* the process after start-up: the pool has begun to create its minimum
Started ==
    /\ now = 0
    /\ cache = <<>>
    /\ allObjects = <<>>
    /\ availableObjects = <<>>
    /\ waitingClients = <<>>
    /\ creating = PoolMin
    /\ crashed = {}
    /\ req = [r \in Reqs |-> Blank]
    /\ setLog = <<>>
    /\ pages = [i \in 1..PoolMax |-> 0]
    /\ filter = NoRequest

NoProbe == [r \in Reqs |-> [state |-> "none", raw |-> <<>>, body |-> <<>>,
                            key |-> <<>>, typed |-> <<>>]]

Init == Started /\ env = CacheEnv /\ probe = NoProbe

LoadInit == Started /\ env = LoadEnv /\ probe = NoProbe

Next ==
    \/ \E r \in Reqs : \E b \in env.bodies : Search(r, b)
    \/ CreateSucceeds
    \/ CreateFails
    \/ \E r \in Reqs : StepSucceeds(r)
    \/ \E r \in Reqs : \E crash \in BOOLEAN : StepFails(r, crash)
    \/ \E r \in Reqs : HandlerResumes(r)
    \/ \E d \in env.steps : Tick(d)
    \/ Sweep

Spec == Init /\ [][Next]_vars

\* the browser scenario
BrowserInit == Started /\ env = BrowserEnv /\ probe = NoProbe

BrowserNext ==
    \/ Next
    \/ \E r \in Reqs : \E type \in env.resources : \E rejects \in BOOLEAN :
           OnRequest(r, type, rejects)

BrowserSpec == BrowserInit /\ [][BrowserNext]_vars

LoadSpec == LoadInit /\ [][Next]_vars

(***************************************************************************)
(* The cache-key scenario: lines 393-403 applied to two request bodies     *)
(* drawn from the admitted bodies of two or three properties.              *)
(***************************************************************************)
PairFields == {fref, frid, fserial, fsref, fid, fiserial}

PairValues == {REF, IDN}

\* a lone empty field, a lone populated field, an unknown field to be sanitized
Extras == {Prop(fsref, <<>>), Prop(fserial, REF), Prop(note, <<" ", "<", "b", " ">>)}

\* two properties, in either order
TwoFieldBodies ==
    {<<Prop(f, v), Prop(g, w)>> : f \in PairFields, g \in PairFields,
                                  v \in PairValues, w \in PairValues}

InsertAt(b, p, i) == SubSeq(b, 1, i) \o <<p>> \o SubSeq(b, i + 1, Len(b))

DistinctNames(b) == \A i, j \in 1..Len(b) : b[i].name = b[j].name => i = j

\* the bodies the validator admits: a populated pair, alone or with one more
\* property before, between or after its two fields
ProbeBodies ==
    {b \in TwoFieldBodies
            \cup {InsertAt(b, p, i) : b \in TwoFieldBodies, p \in Extras, i \in 0..2} :
        DistinctNames(b) /\ ValidateFirearmSearch(b)}

KeyInit ==
    /\ Started
    /\ env = CacheEnv
    /\ \E bodies \in [Reqs -> ProbeBodies] :
           probe = [r \in Reqs |-> [state |-> "received", raw |-> bodies[r],
                                    body |-> bodies[r], key |-> <<>>,
                                    typed |-> <<>>]]

\* the middleware and lines 393-403 for one body
ComputeKey(r) ==
    /\ probe[r].state = "received"
    /\ probe' = [probe EXCEPT ![r] =
                    IF ~ValidateFirearmSearch(probe[r].body)
                    THEN [@ EXCEPT !.state = "rejected"]
                    ELSE LET data == Sanitize(probe[r].body)
                         IN  [@ EXCEPT !.state = "admitted", !.body = data,
                                        !.key = JSONstringify(data)]]
    /\ UNCHANGED <<now, cache, allObjects, availableObjects, waitingClients, creating,
                   crashed, req, setLog, env, pages, filter>>

\* lines 137-146 for the admitted body: the fields performScraping types into
FillForm(r) ==
    /\ probe[r].state = "admitted"
    /\ probe' = [probe EXCEPT ![r] = [@ EXCEPT !.state = "filled",
                                          !.typed = FillPlan(probe[r].body)]]
    /\ UNCHANGED <<now, cache, allObjects, availableObjects, waitingClients, creating,
                   crashed, req, setLog, env, pages, filter>>

KeyNext ==
    \/ \E r \in Reqs : ComputeKey(r)
    \/ \E r \in Reqs : FillForm(r)

KeySpec == KeyInit /\ [][KeyNext]_vars

(***************************************************************************)
(* Fairness: the event loop runs every continuation that is ready, and     *)
(* every browser call and every launch settles (each has a timeout).       *)
(***************************************************************************)
Settles(r) == StepSucceeds(r) \/ \E crash \in BOOLEAN : StepFails(r, crash)

Fairness ==
    /\ WF_vars(CreateSucceeds \/ CreateFails)
    /\ \A r \in Reqs : WF_vars(Settles(r)) /\ WF_vars(HandlerResumes(r))

FairLoadSpec == LoadInit /\ [][Next]_vars /\ Fairness

(***************************************************************************)
(* Properties.                                                             *)
(***************************************************************************)
\* r has acquired an instance and not yet released it
Holds(r) == req[r].browser # 0 /\ req[r].releases = 0

InFlight(r) == req[r].pc \in {"acquire", "returned"} \cup StepNames

\* the pool is at its maximum and every instance is borrowed
Exhausted ==
    /\ Len(allObjects) = PoolMax
    /\ \A i \in 1..Len(allObjects) : allObjects[i] = "ALLOCATED"

\* C1: every acquire that succeeded is matched by exactly one release on every
\* exit path of performScraping, and once no request is in flight no instance
\* is left borrowed.
C1_ReleasedOnEveryExit ==
    /\ \A r \in Reqs :
           req[r].pc = "returned" /\ req[r].browser # 0 => req[r].releases = 1
    /\ (\A r \in Reqs : ~InFlight(r)) =>
           \A i \in 1..Len(allObjects) : allObjects[i] = "IDLE"

\* C2: no instance is held by two performScraping calls at once: holders hold
\* distinct instances, and an instance that is held is allocated and is not
\* in the queue acquire hands out from.
C2_SingleTenant ==
    /\ \A r1, r2 \in Reqs :
           r1 # r2 /\ Holds(r1) /\ Holds(r2) => req[r1].browser # req[r2].browser
    /\ \A r \in Reqs : Holds(r) =>
           /\ req[r].browser \in 1..Len(allObjects)
           /\ allObjects[req[r].browser] = "ALLOCATED"
           /\ \A i \in 1..Len(availableObjects) : availableObjects[i] # req[r].browser

\* two requests in the middle of performScraping, each with its own instance
C2_Witness ==
    \E r1, r2 \in Reqs :
        /\ r1 # r2
        /\ req[r1].pc \in StepNames /\ req[r2].pc \in StepNames
        /\ Holds(r1) /\ Holds(r2)
        /\ Len(allObjects) > PoolMin

\* C3: an acquire that waits on an exhausted pool does not block for ever:
\* the wait ends.
C3_AcquireDoesNotBlockForever ==
    \A r \in Reqs : (req[r].pc = "acquire" /\ Exhausted) ~> (req[r].pc # "acquire")

\* C4: whenever the lookup of a search finds a stored result that is still
\* within its TTL, whatever string it is, the search is answered with exactly
\* that value and neither acquires a browser nor scrapes.
C4_StoredResultIsServed ==
    \A r \in Reqs :
        req[r].cachedResult # NULL =>
            /\ req[r].pc = "done"
            /\ req[r].status = 200
            /\ req[r].sent = req[r].cachedResult

Admitted(r) == probe[r].state \in {"admitted", "filled"}

\* the fields of a body with their values, without their order
PropsOf(b) == {b[i] : i \in 1..Len(b)}

\* C5: two admitted bodies that hold the same fields with the same values and
\* so denote the same query (same variant, same two values) have the same
\* cache key, whatever the order of their fields.
C5_KeyOrderIndependent ==
    \A r1, r2 \in Reqs :
        /\ Admitted(r1) /\ Admitted(r2)
        /\ PropsOf(probe[r1].body) = PropsOf(probe[r2].body)
        /\ QueryOf(probe[r1].body) = QueryOf(probe[r2].body)
        => probe[r1].key = probe[r2].key

\* C6: two admitted bodies that denote different queries (another variant or
\* another field value) never have the same cache key.
C6_KeyNeverCollides ==
    \A r1, r2 \in Reqs :
        /\ Admitted(r1) /\ Admitted(r2)
        /\ QueryOf(probe[r1].body) # QueryOf(probe[r2].body)
        => probe[r1].key # probe[r2].key

\* two admitted bodies of different variants that carry the same values in
\* the same positions
C6_Witness ==
    \E r1, r2 \in Reqs :
        /\ Admitted(r1) /\ Admitted(r2)
        /\ QueryOf(probe[r1].body) # QueryOf(probe[r2].body)
        /\ [i \in 1..Len(probe[r1].body) |-> probe[r1].body[i].value]
               = [i \in 1..Len(probe[r2].body) |-> probe[r2].body[i].value]

\* the instant one TTL after the most recent set for key k
ExpiryOf(k) == setLog[k].at + StdTTL * 1000

\* C7 as stated: a lookup made one TTL or more after the most recent set for
\* its key is a miss and starts a fresh scrape.
C7_MissFromTTL ==
    [][\A r \in Reqs : \A b \in Bodies :
          (/\ Search(r, b)
           /\ Parsed[b].valid
           /\ Parsed[b].cacheKey \in DOMAIN setLog
           /\ now >= ExpiryOf(Parsed[b].cacheKey))
          => /\ req'[r].cachedResult = NULL
             /\ req'[r].pc \in {"acquire", "newPage"}]_vars

\* C7: a lookup made later than one TTL after the most recent set for its key
\* is a miss and starts a fresh scrape; a lookup made up to and including that
\* instant gets the value of the most recent set, whose time the TTL runs from.
C7_MissAfterTTL ==
    [][\A r \in Reqs : \A b \in Bodies :
          (/\ Search(r, b)
           /\ Parsed[b].valid
           /\ Parsed[b].cacheKey \in DOMAIN setLog)
          => IF now > ExpiryOf(Parsed[b].cacheKey)
             THEN /\ req'[r].cachedResult = NULL
                  /\ req'[r].pc \in {"acquire", "newPage"}
             ELSE req'[r].cachedResult = setLog[Parsed[b].cacheKey].v]_vars

\* a search that found its entry expired and deleted, and scrapes afresh
C7_Witness ==
    \E r \in Reqs :
        /\ req[r].pc \in {"acquire", "newPage"}
        /\ req[r].cachedResult = NULL
        /\ KeyOf(req[r].body) \in DOMAIN setLog
        /\ now > ExpiryOf(KeyOf(req[r].body))
        /\ KeyOf(req[r].body) \notin DOMAIN cache

\* C8: when a launch fails while an acquire is waiting, a waiting acquire
\* fails with it, and performScraping returns that error, not a scrape
\* failure.
C8_CreateFailedPropagates ==
    [][(CreateFails /\ \E r \in Reqs : req[r].pc = "acquire")
          => \E r \in Reqs :
                /\ req[r].pc = "acquire"
                /\ req'[r].pc = "returned"
                /\ req'[r].error \notin {"", FetchError}]_vars

\* C9: an instance whose browser died during navigation is taken out of the
\* pool: it is never idle again, so no later acquire receives it.
C9_CorruptedNeverIdle ==
    \A i \in crashed :
        /\ allObjects[i] # "IDLE"
        /\ \A j \in 1..Len(availableObjects) : availableObjects[j] # i

\* C10: once an instance has been acquired, a failure of performScraping is
\* the error 'Failed to fetch data'.
C10_SingleFailureKind ==
    \A r \in Reqs :
        (req[r].pc = "returned" /\ req[r].browser # 0 /\ req[r].error # "")
            => req[r].error = FetchError

\* the fixed table of variants: the two form fields of each
Variants == {<<fref, frid>>, <<fserial, fsref>>, <<fid, fiserial>>}

\* both fields of the pair are populated in body b
Populated(b, pair) == Truthy(Field(b, pair[1])) /\ Truthy(Field(b, pair[2]))

\* C11: for every admitted request, performScraping types into exactly the two
\* fields of the one variant whose pair is populated in the request, with the
\* values of the request, and into nothing else.
C11_TypesThePopulatedPair ==
    \A r \in Reqs :
        probe[r].state = "filled" =>
            \E pair \in Variants :
                /\ Populated(probe[r].raw, pair)
                /\ \A other \in Variants \ {pair} : ~Populated(probe[r].raw, other)
                /\ probe[r].typed =
                       <<Prop(pair[1], Field(probe[r].raw, pair[1])),
                         Prop(pair[2], Field(probe[r].raw, pair[2]))>>

\* a filled form whose request also carried a populated lone field of
\* another pair
C11_Witness ==
    \E r \in Reqs :
        /\ probe[r].state = "filled"
        /\ Len(probe[r].typed) = 2
        /\ \E i \in 1..Len(probe[r].raw) :
               /\ probe[r].raw[i].name \in PairFields
               /\ Truthy(probe[r].raw[i].value)
               /\ \A j \in 1..2 : probe[r].typed[j].name # probe[r].raw[i].name

\* C12: the pool never has more than its maximum of 10 instances (idle plus
\* borrowed), and once it has had its minimum of 2 it never has fewer.
C12_PoolSizeWithinBounds ==
    [][/\ Len(allObjects') <= PoolMax
       /\ Len(allObjects) >= PoolMin => Len(allObjects') >= PoolMin]_vars

\* the pool at its maximum, with a request waiting that no creation serves
C12_Witness ==
    /\ Len(allObjects) = PoolMax
    /\ creating = 0
    /\ \E r \in Reqs : req[r].pc = "acquire"

\* C13: within one performScraping call the steps follow one another in the
\* fixed order, each after the previous one succeeded, the first after
\* acquire; the call returns only after a step, with the instance released,
\* and returns a result only after the last step.
C13_StrictSequenceThenRelease ==
    [][\A r \in Reqs :
          /\ (req[r].pc \in StepNames /\ req'[r].pc \in StepNames
                  /\ req'[r].pc # req[r].pc)
                => StepIndex(req'[r].pc) = StepIndex(req[r].pc) + 1
          /\ (req[r].pc \notin StepNames /\ req'[r].pc \in StepNames)
                => /\ req'[r].pc = Steps[1]
                   /\ req'[r].browser # 0
          /\ (req[r].pc # "returned" /\ req'[r].pc = "returned")
                => /\ req[r].pc \in StepNames
                   /\ req'[r].releases = 1
                   /\ req'[r].error = "" => req[r].pc = Steps[Len(Steps)]]_vars

\* C14: every search that misses the cache calls performScraping and makes
\* its own acquire, whatever other searches for the same key are in flight,
\* and never gets an instance another search holds; every search whose scrape
\* succeeded writes its result under its key with a fresh expiry, so the last
\* write decides the stored value and its expiry.
C14_MissesNotCoalesced ==
    [][\A r \in Reqs :
          /\ \A b \in Bodies :
                (/\ Search(r, b)
                 /\ Parsed[b].valid
                 /\ ~IsCacheHit(CacheGet(cache, Parsed[b].cacheKey, now)))
                => /\ req'[r].pc \in {"acquire", "newPage"}
                   /\ req'[r].pc = "acquire" =>
                          \E i \in 1..Len(waitingClients') : waitingClients'[i] = r
                   /\ req'[r].pc = "newPage" =>
                          /\ req'[r].browser # 0
                          /\ \A q \in Reqs \ {r} :
                                 req'[q].browser # 0 /\ req'[q].releases = 0
                                     => req'[q].browser # req'[r].browser
          /\ (req[r].pc = "returned" /\ req[r].error = "" /\ req'[r].pc = "done")
                => /\ KeyOf(req[r].body) \in DOMAIN cache'
                   /\ cache'[KeyOf(req[r].body)] =
                          [v |-> req[r].result, t |-> now + StdTTL * 1000]]_vars

\* a search that missed an empty cache has scraped a result, while a
\* concurrent search for the same key has stored another one in between
C14_Witness ==
    \E r \in Reqs :
        /\ req[r].pc = "returned"
        /\ req[r].error = ""
        /\ req[r].cachedResult = NULL
        /\ KeyOf(req[r].body) \in DOMAIN cache
        /\ cache[KeyOf(req[r].body)].v # req[r].result

\* C15: the filter aborts a request exactly when its type is image,
\* stylesheet or font and continues every other one; whether or not the call
\* it makes rejects, performScraping goes on unaffected and no rejection is
\* left without a handler.
C15_FilterFailsOpen ==
    [][\A r \in Reqs : \A type \in env.resources : \A rejects \in BOOLEAN :
          OnRequest(r, type, rejects)
          => /\ req' = req
             /\ filter'.action = (IF type \in Suppressed THEN "abort" ELSE "continue")
             /\ ~filter'.unhandled]_vars

\* the step in which the handler of r resumes after a successful scrape
WriteStep(r) == req[r].pc = "returned" /\ req[r].error = "" /\ req'[r].pc = "done"

\* C16: an entry is stored or changed (value or expiry) only by the handler
\* of a search whose scrape succeeded, under the key of that search and with
\* the result of that scrape; every other step leaves every entry as it is,
\* except that an expired entry may be evicted.
C16_CacheWrittenOnlyOnSuccess ==
    [][/\ \A k \in DOMAIN cache' :
             (k \notin DOMAIN cache \/ cache'[k] # cache[k])
             => \E r \in Reqs :
                    /\ WriteStep(r)
                    /\ k = KeyOf(req[r].body)
                    /\ cache'[k].v = req[r].result
       /\ \A k \in DOMAIN cache \ DOMAIN cache' : Expired(cache, k, now)]_vars

\* with an entry stored, one search has been served from the cache and
\* another has failed
C16_Witness ==
    \E r1, r2 \in Reqs :
        /\ req[r1].pc = "done" /\ req[r1].status = 200 /\ req[r1].cachedResult # NULL
        /\ req[r2].pc = "done" /\ req[r2].status = 500
        /\ cache # <<>>

\* C17: every admitted search that has missed the cache and called
\* performScraping eventually gets its response, 200 or 500.  (An admitted
\* search served from the cache is answered in the step that receives it.)
C17_EveryRequestAnswered ==
    \A r \in Reqs :
        InFlight(r) ~> (req[r].pc = "done" /\ req[r].status \in {200, 500})

\* C18: an instance that is idle in the pool has no open page, and no
\* instance ever has more open pages than the one of the scrape that holds it.
C18_IdleHasNoOpenPage ==
    \A i \in 1..Len(allObjects) :
        /\ allObjects[i] = "IDLE" => pages[i] = 0
        /\ pages[i] <= 1

====
